---- MODULE Spec2Model ----
(***************************************************************************)
(* Model of analyze_snapshots (src/analise.py): the snapshots named by     *)
(* file_list are loaded in order, each one is summarised, each consecutive *)
(* pair is compared, and the sequence-wide aggregate is computed before    *)
(* the results dictionary is returned.                                     *)
(*                                                                         *)
(* A snapshot (the dict load_snapshot returns) is a function from a set of *)
(* prefixes to AS paths; a path is a sequence of AS numbers.  A percentage *)
(* or an average is kept as the exact fraction num/den of the float the    *)
(* code computes; the literal 0 / 0.0 of a guarded division is 0/1.        *)
(* top_ases (Counter.most_common) is not part of the model: no property    *)
(* below reads it.                                                         *)
(***************************************************************************)
EXTENDS Integers, Sequences, FiniteSets, TLC

\* ------------------------------------------------------------------ bounds
\* Two families of inputs are explored: file lists of up to MaxFiles sources
\* over NumSeqPrefixes prefixes (any source may be missing), and pairs of
\* existing sources over NumPairPrefixes prefixes with a larger set of paths.
MaxFiles == 3
NumSeqPrefixes == 2
NumPairPrefixes == 3

\* AS paths as parse_line yields them: lists of the tokens of the AS_PATH
\* field.  PairPaths has paths that differ in an element, in order and in
\* length.
SeqPaths == {<<"a">>, <<"a", "b">>}
PairPaths == {<<"a">>, <<"b">>, <<"a", "b">>, <<"b", "a">>}

SnapshotsOver(P, paths) == UNION {[S -> paths] : S \in SUBSET P}
\* What os.path.isfile and load_snapshot see of one source.
Missing == [exists |-> FALSE, snap |-> <<>>]
Existing(snaps) == {[exists |-> TRUE, snap |-> s] : s \in snaps}
SeqSources == {Missing} \cup Existing(SnapshotsOver(1..NumSeqPrefixes, SeqPaths))
PairSources == Existing(SnapshotsOver(1..NumPairPrefixes, PairPaths))

VARIABLES
    file_list,          \* the argument: the source names, in caller order
    disk,               \* per source: whether it exists, and the dict it loads to
    pc,                 \* "body", "return" (results being built), "done", "failed"
    raised,             \* the exception that ended the call, or "none"
    snapshots,          \* list of loaded dicts
    snapshots_data,     \* list of snap_info
    comparisons,        \* list of comp_info
    prefixes_in_all,    \* locals of the global-metrics part
    first_total,
    perc_prefixes_all,
    totally_stable_prefixes,
    perc_totally_stable,
    result              \* <<>> until the return, then <<results>>

vars == <<file_list, disk, pc, raised, snapshots, snapshots_data, comparisons,
          prefixes_in_all, first_total, perc_prefixes_all,
          totally_stable_prefixes, perc_totally_stable, result>>

locals == <<prefixes_in_all, first_total, perc_prefixes_all,
            totally_stable_prefixes, perc_totally_stable>>

\* ----------------------------------------------------------------- helpers
Range(s) == {s[k] : k \in 1..Len(s)}

Zero == [num |-> 0, den |-> 1]

RECURSIVE SumLens(_, _)
\* sum(len(s[p]) for p in S)
SumLens(S, s) ==
    IF S = {} THEN 0
    ELSE LET p == CHOOSE q \in S : TRUE IN Len(s[p]) + SumLens(S \ {p}, s)

\* sum(lst)/len(lst) if len(lst) > 0 else 0.0, lst = [len(s[p]) for p in S]
avg_len(S, s) ==
    IF Cardinality(S) > 0 THEN [num |-> SumLens(S, s), den |-> Cardinality(S)]
    ELSE Zero

\* The division without its guard.
PercNoGuard(count, total) == [num |-> count * 100, den |-> total]

\* total / count in place of count / total.
PercInverted(count, total) ==
    IF total > 0 THEN [num |-> total * 100, den |-> count] ELSE Zero

\* (count / total * 100) if total > 0 else 0
Perc(count, total) ==
    IF total > 0 THEN [num |-> count * 100, den |-> total] ELSE Zero

\* ------------------------------------------------------------------- Init
\* The state on entry to analyze_snapshots: nothing loaded or computed yet.
Entry ==
    /\ pc = "body"
    /\ raised = "none"
    /\ snapshots = <<>>
    /\ snapshots_data = <<>>
    /\ comparisons = <<>>
    /\ prefixes_in_all = {}
    /\ first_total = 0
    /\ perc_prefixes_all = Zero
    /\ totally_stable_prefixes = <<>>
    /\ perc_totally_stable = Zero
    /\ result = <<>>

\* A file list of 0..MaxFiles sources, each missing or holding a snapshot.
Init ==
    /\ \E n \in 0..MaxFiles :
          /\ file_list = [k \in 1..n |-> k]
          /\ disk \in [1..n -> SeqSources]
    /\ Entry

\* A file list of two existing sources.
InitPair ==
    /\ file_list = <<1, 2>>
    /\ disk \in [1..2 -> PairSources]
    /\ Entry

\* ------------------------------------------------------------------- load
\* A check that lets every name through.
isfileAlways(fname) == TRUE

\* os.path.isfile(fname)
isfile(fname) == disk[fname].exists

load_snapshot(fname) == disk[fname].snap

\* One iteration of "for fname in file_list": raise, or load and append.
LoadStep ==
    /\ pc = "body"
    /\ Len(snapshots) < Len(file_list)
    /\ LET fname == file_list[Len(snapshots) + 1] IN
          IF ~isfile(fname)
          THEN /\ pc' = "failed"
               /\ raised' = "FileNotFoundError"
               /\ UNCHANGED snapshots
          ELSE /\ snapshots' = Append(snapshots, load_snapshot(fname))
               /\ UNCHANGED <<pc, raised>>
    /\ UNCHANGED <<file_list, disk, snapshots_data, comparisons, locals, result>>

\* -------------------------------------------------------------- summaries
\* snap_info for snapshots[i] (0-based i in the code, 1-based here).
SnapInfo(i) ==
    LET snap == snapshots[i] IN
    [filename        |-> file_list[i],
     total_routes    |-> Cardinality(DOMAIN snap),
     avg_path_length |-> avg_len(DOMAIN snap, snap),
     snapshot        |-> snap]

\* One iteration of "for i, snap in enumerate(snapshots)".
SummarizeStep ==
    /\ pc = "body"
    /\ Len(snapshots) = Len(file_list)
    /\ Len(snapshots_data) < Len(snapshots)
    /\ snapshots_data' = Append(snapshots_data, SnapInfo(Len(snapshots_data) + 1))
    /\ UNCHANGED <<file_list, disk, pc, raised, snapshots, comparisons, locals, result>>

\* ------------------------------------------------------------ comparisons
\* Two paths compared by their lengths only.
PathEqByLength(a, b) == Len(a) = Len(b)

\* s1[prefix] == s2[prefix]: equality of two Python lists.
PathEq(a, b) == a = b

\* The loop body with "changed += 1" outside the else: it runs for every
\* prefix that is in both snapshots.
ClassifyOneDedented(prefix, s1, s2, acc) ==
    IF prefix \notin DOMAIN s2
    THEN [acc EXCEPT !.disappeared = @ + 1]
    ELSE IF PathEq(s1[prefix], s2[prefix])
         THEN [acc EXCEPT !.stable = @ + 1, !.changed = @ + 1]
         ELSE [acc EXCEPT !.changed = @ + 1]

\* The body of "for prefix in p1" on the counters acc.
ClassifyOne(prefix, s1, s2, acc) ==
    IF prefix \notin DOMAIN s2
    THEN [acc EXCEPT !.disappeared = @ + 1]
    ELSE IF PathEq(s1[prefix], s2[prefix])
         THEN [acc EXCEPT !.stable = @ + 1]
         ELSE [acc EXCEPT !.changed = @ + 1]

RECURSIVE ClassifyP1(_, _, _, _)
\* "for prefix in p1": todo is what the loop has still to visit.
ClassifyP1(todo, s1, s2, acc) ==
    IF todo = {} THEN acc
    ELSE LET prefix == CHOOSE q \in todo : TRUE
         IN ClassifyP1(todo \ {prefix}, s1, s2, ClassifyOne(prefix, s1, s2, acc))

\* The test with p2 where p1 is meant.
CountOneNewWrongSet(prefix, p1, p2, new) ==
    IF prefix \notin p2 THEN new + 1 ELSE new

\* The body of "for prefix in p2": if prefix not in p1: new += 1
CountOneNew(prefix, p1, p2, new) ==
    IF prefix \notin p1 THEN new + 1 ELSE new

RECURSIVE CountNew(_, _, _, _)
\* "for prefix in p2"
CountNew(todo, p1, p2, new) ==
    IF todo = {} THEN new
    ELSE LET prefix == CHOOSE q \in todo : TRUE
         IN CountNew(todo \ {prefix}, p1, p2, CountOneNew(prefix, p1, p2, new))

\* s2 taken at index i.
LaterSameIndex(i) == snapshots[i]

\* s1 = snapshots[i]
Earlier(i) == snapshots[i]

\* s2 = snapshots[i+1]
Later(i) == snapshots[i + 1]

\* comp_info of the comparison i -> i+1.
CompInfo(i) ==
    LET s1 == Earlier(i)
        s2 == Later(i)
        p1 == DOMAIN s1
        p2 == DOMAIN s2
        cnt == ClassifyP1(p1, s1, s2, [stable |-> 0, changed |-> 0, disappeared |-> 0])
        new == CountNew(p2, p1, p2, 0)
        total_s1 == Cardinality(DOMAIN s1)
        total_s2 == Cardinality(DOMAIN s2)
        stableSet == {p \in p1 : p \in p2 /\ s1[p] = s2[p]}
        changedSet == {p \in p1 : p \in p2 /\ s1[p] # s2[p]}
    IN
    [from_snapshot |-> file_list[i],
     to_snapshot |-> file_list[i + 1],
     total_s1 |-> total_s1,
     total_s2 |-> total_s2,
     stable |-> cnt.stable,
     changed |-> cnt.changed,
     disappeared |-> cnt.disappeared,
     new |-> new,
     perc_stable |-> Perc(cnt.stable, total_s1),
     perc_changed |-> Perc(cnt.changed, total_s1),
     perc_disappeared |-> Perc(cnt.disappeared, total_s1),
     perc_new |-> Perc(new, total_s1),
     avg_len_stable |-> avg_len(stableSet, s1),
     avg_len_changed_before |-> avg_len(changedSet, s1),
     avg_len_changed_after |-> avg_len(changedSet, s2),
     avg_len_disappeared |-> avg_len({p \in p1 : p \notin p2}, s1),
     avg_len_new |-> avg_len({p \in p2 : p \notin p1}, s2)]

\* One iteration of "for i in range(len(snapshots) - 1)".
CompareStep ==
    /\ pc = "body"
    /\ Len(snapshots) = Len(file_list)
    /\ Len(snapshots_data) = Len(snapshots)
    /\ Len(comparisons) < Len(snapshots) - 1
    /\ comparisons' = Append(comparisons, CompInfo(Len(comparisons) + 1))
    /\ UNCHANGED <<file_list, disk, pc, raised, snapshots, snapshots_data, locals, result>>

\* --------------------------------------------------------- global metrics
RECURSIVE Intersection(_)
\* set.intersection(*sets), sets non-empty
Intersection(sets) ==
    IF Len(sets) = 1 THEN sets[1]
    ELSE sets[1] \cap Intersection(Tail(sets))

RECURSIVE UnionOf(_)
UnionOf(sets) ==
    IF Len(sets) = 0 THEN {} ELSE sets[1] \cup UnionOf(Tail(sets))

\* set.union where set.intersection is meant.
PrefixesInAllUnion(sets) ==
    IF Len(sets) = 0 THEN [ok |-> FALSE, val |-> {}]
    ELSE [ok |-> TRUE, val |-> UnionOf(sets)]

\* The empty list answered with the empty set.
PrefixesInAllEmptyOk(sets) ==
    IF Len(sets) = 0 THEN [ok |-> TRUE, val |-> {}]
    ELSE [ok |-> TRUE, val |-> Intersection(sets)]

\* set.intersection(*sets) if len(sets) > 1 else sets[0]; indexing the empty
\* list raises IndexError (ok = FALSE).
PrefixesInAll(sets) ==
    IF Len(sets) > 1 THEN [ok |-> TRUE, val |-> Intersection(sets)]
    ELSE IF Len(sets) = 0 THEN [ok |-> FALSE, val |-> {}]
    ELSE [ok |-> TRUE, val |-> sets[1]]

\* The orders in which "for p in prefixes_in_all" may visit a set.
Orders(S) ==
    {o \in [1..Cardinality(S) -> S] : \A a, b \in DOMAIN o : o[a] = o[b] => a = b}

\* paths = [snapshots_data[i]['snapshot'][p] ...] raises KeyError
HasKey(p) == \A i \in 1..Len(snapshots_data) : p \in DOMAIN snapshots_data[i].snapshot

\* The first path compared with the last one only.
AllEqualFirstLast(p) ==
    Len(snapshots_data) > 0 =>
        PathEq(snapshots_data[1].snapshot[p],
               snapshots_data[Len(snapshots_data)].snapshot[p])

\* all(paths[i] == paths[i+1] for i in range(len(paths)-1))
AllEqual(p) ==
    \A i \in 1..(Len(snapshots_data) - 1) :
        PathEq(snapshots_data[i].snapshot[p], snapshots_data[i + 1].snapshot[p])

\* Lines 168-191, with o the order in which the set prefixes_in_all is visited.
Aggregate ==
    /\ pc = "body"
    /\ Len(snapshots) = Len(file_list)
    /\ Len(snapshots_data) = Len(snapshots)
    /\ Len(comparisons) >= Len(snapshots) - 1
    /\ LET all_prefixes_sets ==
               [i \in 1..Len(snapshots_data) |-> DOMAIN snapshots_data[i].snapshot]
           pia == PrefixesInAll(all_prefixes_sets)
       IN
       IF ~pia.ok
       THEN /\ pc' = "failed"
            /\ raised' = "IndexError"
            /\ UNCHANGED locals
       ELSE LET ft == IF Len(snapshots_data) > 0
                      THEN snapshots_data[1].total_routes ELSE 0
            IN
            /\ prefixes_in_all' = pia.val
            /\ first_total' = ft
            /\ perc_prefixes_all' = Perc(Cardinality(pia.val), ft)
            /\ \E o \in Orders(pia.val) :
                 IF \A k \in DOMAIN o : HasKey(o[k])
                 THEN LET ts == SelectSeq(o, AllEqual) IN
                      /\ totally_stable_prefixes' = ts
                      /\ perc_totally_stable' = Perc(Len(ts), ft)
                      /\ pc' = "return"
                      /\ UNCHANGED raised
                 ELSE LET bad == CHOOSE k \in DOMAIN o :
                                    /\ ~HasKey(o[k])
                                    /\ \A j \in 1..(k - 1) : HasKey(o[j])
                      IN
                      /\ totally_stable_prefixes' = SelectSeq(SubSeq(o, 1, bad - 1), AllEqual)
                      /\ pc' = "failed"
                      /\ raised' = "KeyError"
                      /\ UNCHANGED perc_totally_stable
    /\ UNCHANGED <<file_list, disk, snapshots, snapshots_data, comparisons, result>>

\* Lines 193-203: results = {...}; return results
Return ==
    /\ pc = "return"
    /\ result' = <<[snapshots_data |-> snapshots_data,
                    comparisons |-> comparisons,
                    prefixes_in_all |-> prefixes_in_all,
                    totally_stable_prefixes |-> totally_stable_prefixes,
                    perc_prefixes_all |-> perc_prefixes_all,
                    perc_totally_stable |-> perc_totally_stable]>>
    /\ pc' = "done"
    /\ UNCHANGED <<file_list, disk, raised, snapshots, snapshots_data, comparisons, locals>>

Next == LoadStep \/ SummarizeStep \/ CompareStep \/ Aggregate \/ Return

Spec == Init /\ [][Next]_vars

SpecPair == InitPair /\ [][Next]_vars

\* ---------------------------------------------------------------- properties
N == Len(file_list)
AllExist == \A k \in 1..N : disk[k].exists
AnyMissing == \E k \in 1..N : ~disk[k].exists
Size(snap) == Cardinality(DOMAIN snap)
Finished == pc \in {"return", "done"}
NoDuplicates(seq) == Len(seq) = Cardinality(Range(seq))
AtMost100(perc) == perc.num <= 100 * perc.den

\* Exact equality of two sequences: same length, same element at each place.
SameSeq(a, b) == Len(a) = Len(b) /\ \A j \in 1..Len(a) : a[j] = b[j]

\* The destinations present in each of the loaded snapshots.
Universal ==
    {d \in UNION {DOMAIN snapshots[k] : k \in 1..Len(snapshots)} :
        \A k \in 1..Len(snapshots) : d \in DOMAIN snapshots[k]}

\* C1: in every comparison record, stable + changed + disappeared equals
\* total_s1, which is the number of destinations of the earlier snapshot
\* (empty snapshots included).
C1_FirstPartition ==
    \A k \in 1..Len(comparisons) :
        LET c == comparisons[k] IN
        /\ c.stable + c.changed + c.disappeared = c.total_s1
        /\ c.total_s1 = Size(snapshots[k])

C1_Witness ==
    /\ pc = "done"
    /\ \E k \in 1..Len(comparisons) :
          /\ comparisons[k].stable > 0
          /\ comparisons[k].changed > 0
          /\ comparisons[k].disappeared > 0

\* C2: in every comparison record, new + stable + changed equals total_s2,
\* which is the number of destinations of the later snapshot.
C2_SecondPartition ==
    \A k \in 1..Len(comparisons) :
        LET c == comparisons[k] IN
        /\ c.new + c.stable + c.changed = c.total_s2
        /\ c.total_s2 = Size(snapshots[k + 1])

C2_Witness ==
    /\ pc = "done"
    /\ \E k \in 1..Len(comparisons) :
          /\ comparisons[k].new > 0
          /\ comparisons[k].stable > 0
          /\ comparisons[k].changed > 0

\* C3: the four counts of every comparison equal the reference
\* classification: disappeared = destinations of A absent from B, stable =
\* destinations in both with the same path as an exact sequence, changed =
\* destinations in both whose paths differ, new = destinations of B absent
\* from A.
C3_ReferenceClassification ==
    \A k \in 1..Len(comparisons) :
        LET c == comparisons[k]
            A == snapshots[k]
            B == snapshots[k + 1]
            both == DOMAIN A \cap DOMAIN B
        IN
        /\ c.disappeared = Cardinality(DOMAIN A \ DOMAIN B)
        /\ c.stable = Cardinality({d \in both : SameSeq(A[d], B[d])})
        /\ c.changed = Cardinality({d \in both : ~SameSeq(A[d], B[d])})
        /\ c.new = Cardinality(DOMAIN B \ DOMAIN A)

\* A comparison with a path that changed in order only, one that changed in
\* an element only, and a disappeared and a new destination.
C3_Witness ==
    /\ pc = "done"
    /\ \E k \in 1..Len(comparisons) :
          LET A == snapshots[k]
              B == snapshots[k + 1]
          IN
          /\ \E d \in DOMAIN A \cap DOMAIN B : A[d] = <<"a", "b">> /\ B[d] = <<"b", "a">>
          /\ \E d \in DOMAIN A \cap DOMAIN B : A[d] = <<"a">> /\ B[d] = <<"b">>
          /\ comparisons[k].changed = 2
          /\ comparisons[k].disappeared = 1
          /\ comparisons[k].new = 0

\* C4: once the global metrics are computed, totally_stable_prefixes lists
\* (without repetition) exactly the destinations present in every snapshot
\* whose path is the same in every consecutive pair, which are those whose
\* path is the same in any two snapshots; with one snapshot these are all
\* its destinations, and prefixes_in_all is its key set.
C4_TotallyStable ==
    Finished =>
        /\ NoDuplicates(totally_stable_prefixes)
        /\ prefixes_in_all = Universal
        /\ Range(totally_stable_prefixes) =
              {d \in Universal :
                  \A k \in 1..(Len(snapshots) - 1) :
                      SameSeq(snapshots[k][d], snapshots[k + 1][d])}
        /\ Range(totally_stable_prefixes) =
              {d \in Universal :
                  \A j, k \in 1..Len(snapshots) : snapshots[j][d] = snapshots[k][d]}
        /\ Len(snapshots) = 1 =>
              /\ Range(totally_stable_prefixes) = DOMAIN snapshots[1]
              /\ prefixes_in_all = DOMAIN snapshots[1]
        /\ pc = "done" =>
              /\ result[1].totally_stable_prefixes = totally_stable_prefixes
              /\ result[1].prefixes_in_all = prefixes_in_all

\* Three snapshots, one destination stable throughout and one whose path is
\* the same in the first and the last snapshot but not in the middle one.
C4_Witness ==
    /\ pc = "done"
    /\ Len(snapshots) = 3
    /\ totally_stable_prefixes # <<>>
    /\ \E d \in prefixes_in_all :
          /\ d \notin Range(totally_stable_prefixes)
          /\ snapshots[1][d] = snapshots[3][d]

\* C5: whenever at least one snapshot is loaded, every element of
\* totally_stable_prefixes is in prefixes_in_all, and prefixes_in_all is a
\* subset of the first snapshot's destinations; the returned result holds
\* these two sets.
C5_Subsets ==
    /\ Len(snapshots) >= 1 =>
          /\ Range(totally_stable_prefixes) \subseteq prefixes_in_all
          /\ prefixes_in_all \subseteq DOMAIN snapshots[1]
    /\ pc = "done" =>
          /\ Range(result[1].totally_stable_prefixes) \subseteq result[1].prefixes_in_all
          /\ result[1].prefixes_in_all \subseteq DOMAIN result[1].snapshots_data[1].snapshot

\* Both inclusions are proper.
C5_Witness ==
    /\ pc = "done"
    /\ Len(snapshots) = 3
    /\ Range(totally_stable_prefixes) # prefixes_in_all
    /\ prefixes_in_all # DOMAIN snapshots[1]

\* C6: a comparison whose earlier snapshot is empty has its four percentages
\* equal to 0, also when new > 0; when the first snapshot is empty,
\* perc_prefixes_all and perc_totally_stable are 0; and a call whose sources
\* all exist (at least one) raises nothing.
C6_ZeroDenominator ==
    /\ \A k \in 1..Len(comparisons) :
          LET c == comparisons[k] IN
          Size(snapshots[k]) = 0 =>
              /\ c.perc_stable = Zero
              /\ c.perc_changed = Zero
              /\ c.perc_disappeared = Zero
              /\ c.perc_new = Zero
    /\ (Finished /\ Size(snapshots[1]) = 0) =>
          /\ perc_prefixes_all = Zero
          /\ perc_totally_stable = Zero
    /\ (pc = "done" /\ Size(snapshots[1]) = 0) =>
          /\ result[1].perc_prefixes_all = Zero
          /\ result[1].perc_totally_stable = Zero
    /\ (AllExist /\ N >= 1) => (raised = "none" /\ pc # "failed")

C6_Witness ==
    /\ pc = "done"
    /\ Size(snapshots[1]) = 0
    /\ Len(comparisons) = 2
    /\ comparisons[1].new > 0
    /\ comparisons[1].perc_new = Zero

\* C7 as stated: with a non-empty earlier snapshot each of the four
\* percentages of a comparison is at most 100, and with a non-empty first
\* snapshot perc_prefixes_all and perc_totally_stable are at most 100.
C7_Original ==
    /\ \A k \in 1..Len(comparisons) :
          LET c == comparisons[k] IN
          Size(snapshots[k]) > 0 =>
              /\ AtMost100(c.perc_stable)
              /\ AtMost100(c.perc_changed)
              /\ AtMost100(c.perc_disappeared)
              /\ AtMost100(c.perc_new)
    /\ (Finished /\ Size(snapshots[1]) > 0) =>
          /\ AtMost100(perc_prefixes_all)
          /\ AtMost100(perc_totally_stable)

\* C7 (amended): with a non-empty earlier snapshot A, perc_stable,
\* perc_changed and perc_disappeared are at most 100; perc_new is
\* new / |A| * 100 with new at most |B|, so it is at most 100 * |B| / |A|,
\* and at most 100 when new <= |A|; with a non-empty first snapshot
\* perc_prefixes_all and perc_totally_stable are at most 100.
C7_Bounds ==
    /\ \A k \in 1..Len(comparisons) :
          LET c == comparisons[k] IN
          Size(snapshots[k]) > 0 =>
              /\ AtMost100(c.perc_stable)
              /\ AtMost100(c.perc_changed)
              /\ AtMost100(c.perc_disappeared)
              /\ c.perc_new = [num |-> c.new * 100, den |-> Size(snapshots[k])]
              /\ c.new <= Size(snapshots[k + 1])
              /\ c.perc_new.num <= 100 * Size(snapshots[k + 1])
              /\ c.new <= Size(snapshots[k]) => AtMost100(c.perc_new)
    /\ (Finished /\ Size(snapshots[1]) > 0) =>
          /\ AtMost100(perc_prefixes_all)
          /\ AtMost100(perc_totally_stable)

\* perc_new is 200 and the other percentages are defined.
C7_Witness ==
    /\ pc = "done"
    /\ Size(snapshots[1]) = 1
    /\ comparisons[1].new = 2
    /\ comparisons[1].perc_new = [num |-> 200, den |-> 1]
    /\ comparisons[1].perc_stable = [num |-> 100, den |-> 1]
    /\ perc_prefixes_all = [num |-> 100, den |-> 1]

\* C8: when some source of the list does not exist, no summary, comparison
\* or global metric is ever computed and nothing is returned: the call is
\* still loading the sources that precede the first missing one, or it has
\* raised FileNotFoundError.
C8_MissingSourceAborts ==
    AnyMissing =>
        /\ snapshots_data = <<>>
        /\ comparisons = <<>>
        /\ prefixes_in_all = {} /\ totally_stable_prefixes = <<>>
        /\ first_total = 0 /\ perc_prefixes_all = Zero /\ perc_totally_stable = Zero
        /\ result = <<>>
        /\ pc \in {"body", "failed"}
        /\ pc = "failed" => raised = "FileNotFoundError"
        /\ pc = "body" =>
              /\ \A k \in 1..(Len(snapshots) + 1) : k <= N
              /\ \A k \in 1..Len(snapshots) : disk[k].exists
              /\ ENABLED LoadStep

\* The last of three sources is the one that is missing.
C8_Witness ==
    /\ N = 3
    /\ disk[1].exists /\ disk[2].exists /\ ~disk[3].exists
    /\ Len(snapshots) = 2
    /\ pc = "failed"
    /\ raised = "FileNotFoundError"

\* C9: with an empty file list nothing is returned and no global metric is
\* computed: the call is on its way to the global metrics or has failed
\* there (IndexError on all_prefixes_sets[0]).
C9_EmptyListFails ==
    N = 0 =>
        /\ result = <<>>
        /\ prefixes_in_all = {} /\ totally_stable_prefixes = <<>>
        /\ first_total = 0 /\ perc_prefixes_all = Zero /\ perc_totally_stable = Zero
        /\ snapshots_data = <<>> /\ comparisons = <<>>
        /\ \/ pc = "body" /\ raised = "none" /\ ENABLED Aggregate
           \/ pc = "failed" /\ raised = "IndexError"

C9_Witness ==
    /\ N = 0
    /\ pc = "failed"
    /\ raised = "IndexError"
    /\ result = <<>>

\* C10, the state part: for N >= 1 existing sources, a comparison exists
\* only once all N summaries do, the global metrics only once all N-1
\* comparisons do, the call does not fail, the i-th summary is that of the
\* i-th source, the i-th comparison is that of sources i and i+1, and the
\* result returned holds these N summaries and N-1 comparisons.
C10_Shape ==
    (AllExist /\ N >= 1) =>
        /\ pc # "failed"
        /\ comparisons # <<>> => Len(snapshots_data) = N
        /\ snapshots_data # <<>> => Len(snapshots) = N
        /\ Finished => (Len(snapshots_data) = N /\ Len(comparisons) = N - 1)
        /\ ~Finished =>
              /\ prefixes_in_all = {} /\ totally_stable_prefixes = <<>>
              /\ perc_prefixes_all = Zero /\ perc_totally_stable = Zero
        /\ \A k \in 1..Len(snapshots_data) :
              /\ snapshots_data[k].filename = file_list[k]
              /\ snapshots_data[k].snapshot = disk[file_list[k]].snap
              /\ snapshots_data[k].total_routes = Size(disk[file_list[k]].snap)
        /\ \A k \in 1..Len(comparisons) :
              /\ comparisons[k].from_snapshot = file_list[k]
              /\ comparisons[k].to_snapshot = file_list[k + 1]
              /\ comparisons[k].total_s1 = Size(disk[file_list[k]].snap)
              /\ comparisons[k].total_s2 = Size(disk[file_list[k + 1]].snap)
        /\ pc = "done" =>
              /\ Len(result) = 1
              /\ result[1].snapshots_data = snapshots_data
              /\ result[1].comparisons = comparisons
              /\ Len(result[1].snapshots_data) = N
              /\ Len(result[1].comparisons) = N - 1

\* C10, the step part: summaries and comparisons only grow at their end, and
\* the global metrics, once computed, are never computed again.
C10_Step ==
    /\ \/ snapshots_data' = snapshots_data
       \/ \E x \in {snapshots_data'[Len(snapshots_data')]} :
            snapshots_data' = Append(snapshots_data, x)
    /\ \/ comparisons' = comparisons
       \/ \E x \in {comparisons'[Len(comparisons')]} :
            comparisons' = Append(comparisons, x)
    /\ Finished => (Finished' /\ UNCHANGED locals)

\* C10: for N >= 1 existing sources the result holds N summaries in caller
\* order and N-1 comparisons in order, the i-th between sources i and i+1;
\* summaries precede comparisons, and the global metrics are computed once,
\* after all comparisons; one source alone gives no comparison and no error.
C10_Order == [](C10_Shape) /\ [][C10_Step]_vars

C10_Witness ==
    /\ pc = "done"
    /\ AllExist
    /\ N = 3
    /\ Len(result[1].comparisons) = 2
    /\ result[1].comparisons[1].total_s1 # result[1].comparisons[1].total_s2
    /\ result[1].comparisons[2].total_s1 # result[1].comparisons[2].total_s2
====
